---- MODULE Spec2Model ----
(***************************************************************************)
(* Model of src/src/index.js: the Frame wrapper, the Animation driver      *)
(* (play / stop and the promise continuation that walks the frame queue),  *)
(* the host scheduler (requestAnimationFrame / cancelAnimationFrame) and   *)
(* the host's promise-job (microtask) queue.                               *)
(*                                                                         *)
(* JavaScript is single threaded.  A scheduler tick runs only when no      *)
(* callback is running and the microtask queue is empty; a promise         *)
(* reaction runs only when no callback is running.  The public methods     *)
(* are called by user code, which runs in a task of its own, in a          *)
(* microtask of its own, or inside a frame callback.                       *)
(***************************************************************************)
EXTENDS Integers, Sequences, FiniteSets

\* ------------------------------------------------------------------ bounds
MaxQ == 3       \* longest frame queue explored
MaxOps == 6     \* calls of play() / stop() in one run
MaxLiveOps == 4    \* calls of play() / stop() in one run checked for progress
MaxFrameOps == 4  \* calls of a Frame's own methods in one run
MaxArg == 2     \* distinct argument values a user passes to a frame
MaxDuration == 100  \* longest duration (ms) the constructor is given, besides 1000
MaxLen == 5     \* longest array given as timing function

\* --------------------------------------------------------------- constants
FPS == 60
MsPerSecond == 1000     \* INTERVAL = 1000 / FPS milliseconds
DecimalPlaces == 10     \* toFixed(10)

\* ------------------------------------------------------------------ names
QueueFrames == 0 .. (MaxQ - 1)      \* positions of frameQueue
UserFrame == MaxQ                   \* the Frame made by animation.frame(fn)
OneShot == MaxQ + 1                 \* the Frame made inside requestFrame(fn)
Frames == 0 .. (MaxQ + 1)
UserArgs == {<<k>> : k \in 1 .. MaxArg}

Val(tag, f, a) == [tag |-> tag, f |-> f, a |-> a]
NoVal == Val("none", -1, <<>>)
FINISH == Val("FINISH", -1, <<>>)
CANCEL == Val("CANCEL", -1, <<>>)
\* the value a frame's callback returns for the arguments it is applied to
fun(f, a) == Val("ret", f, a)

NoRun == [frame |-> -1, args |-> <<>>, defer |-> 0, tick |-> 0]

VARIABLES
    isPlaying,      \* animation: var isPlaying
    frameIndex,     \* animation: var frameIndex
    defer,          \* animation: var defer (0 = undefined / null)
    qlen,           \* frameQueue.length
    promises,       \* every PromiseDefer() made so far, by id 1..Len
    mq,             \* the host's queue of promise reaction jobs
    tick,           \* Frame: var tick, per frame (0 = undefined)
    isCancel,       \* Frame: var isCancel, per frame
    frameDefer,     \* Frame: var defer, per frame (0 = undefined)
    raf,            \* scheduler callbacks registered and not yet fired
    nextTick,       \* the token the scheduler hands out next
    running,        \* the frame callback being executed, or NoRun
    ctor,           \* the constructor call: its arguments, position and locals
    ops,            \* public method calls made so far
    lastOp,         \* history: the step just taken and its calling context
    calls,          \* history: every invocation of a frame callback
    asked,          \* history: what users asked for when scheduling a frame
    cancelled,      \* history: tokens cancelled while still registered
    stopped,        \* history: cycle handles that saw a stop() mid-cycle
    idleBy,         \* history: how the animation last became idle
    finishes,       \* history: handles on which resolve('FINISH') was called
    threw,          \* history: a frame callback has thrown
    stopCtx         \* history: the contexts in which stop() stopped a cycle

prog == <<isPlaying, frameIndex, defer, qlen, promises, mq, tick, isCancel,
          frameDefer, raf, nextTick>>
hist == <<lastOp, calls, asked, cancelled, stopped, idleBy, finishes, threw, stopCtx>>
vars == <<isPlaying, frameIndex, defer, qlen, promises, mq, tick, isCancel,
          frameDefer, raf, nextTick, running, ctor, ops, lastOp, calls, asked,
          cancelled, stopped, idleBy, finishes, threw, stopCtx>>

\* The program state as one record, so that a method that calls another
\* method is the composition of their effects.
Cur ==
    [isPlaying |-> isPlaying, frameIndex |-> frameIndex, defer |-> defer,
     qlen |-> qlen, promises |-> promises, mq |-> mq, tick |-> tick,
     isCancel |-> isCancel, frameDefer |-> frameDefer, raf |-> raf,
     nextTick |-> nextTick]

Install(s) ==
    /\ isPlaying' = s.isPlaying
    /\ frameIndex' = s.frameIndex
    /\ defer' = s.defer
    /\ qlen' = s.qlen
    /\ promises' = s.promises
    /\ mq' = s.mq
    /\ tick' = s.tick
    /\ isCancel' = s.isCancel
    /\ frameDefer' = s.frameDefer
    /\ raf' = s.raf
    /\ nextTick' = s.nextTick

\* ------------------------------------------------------------ host: promises
\* PromiseDefer(): a new pending promise; its id is Len(s.promises) + 1.
\* `of` is the frame whose request made it (-1: the animation's handle),
\* `then` whether the driver's continuation is attached to it.
PromiseDefer(s, owner) ==
    [s EXCEPT !.promises =
        Append(@, [st |-> "pending", val |-> NoVal, then |-> FALSE, of |-> owner])]

\* promise.then(onResolved, onRejected) of the driver, on a pending promise
then(s, p) == [s EXCEPT !.promises[p].then = TRUE]

\* deferred.resolve(v) / deferred.reject(v): only a pending promise settles;
\* settling queues the attached reaction job.
Settle(s, p, st, v) ==
    IF s.promises[p].st # "pending"
    THEN s
    ELSE [s EXCEPT !.promises[p].st = st,
                   !.promises[p].val = v,
                   !.mq = IF s.promises[p].then
                          THEN Append(@, [p |-> p, kind |-> st])
                          ELSE @]

\* ----------------------------------------------------------- host: scheduler
requestAnimationFrame(s, f, a) ==
    [s EXCEPT !.raf = Append(@, [id |-> s.nextTick, frame |-> f, args |-> a]),
              !.nextTick = @ + 1]

cancelAnimationFrame(s, id) ==
    [s EXCEPT !.raf = SelectSeq(@, LAMBDA e : e.id # id)]

Registered(s, id) == \E i \in 1 .. Len(s.raf) : s.raf[i].id = id

\* ------------------------------------------------------------------- Frame
\* Frame.request(...args)
Frame_request(s, f, a) ==
    LET s1 == [s EXCEPT !.isCancel[f] = FALSE]
        s2 == PromiseDefer(s1, f)
        s3 == [s2 EXCEPT !.frameDefer[f] = Len(s2.promises)]
        s4 == requestAnimationFrame(s3, f, a)
    IN  [s4 EXCEPT !.tick[f] = s3.nextTick]

\* Frame.cancel()
Frame_cancel(s, f) ==
    IF s.tick[f] # 0
    THEN LET s1 == [s EXCEPT !.isCancel[f] = TRUE]
             s2 == cancelAnimationFrame(s1, s.tick[f])
         IN  IF s2.frameDefer[f] # 0
             THEN Settle(s2, s2.frameDefer[f], "rejected", CANCEL)
             ELSE s2
    ELSE s

\* --------------------------------------------------------------- Animation
\* Number.prototype.toFixed(DecimalPlaces) of the rational num / den >= 0:
\* the decimal string, as <<integer part, digit, ..., digit>>, rounded half up
RECURSIVE digitsOf(_, _, _)
digitsOf(r, den, n) ==
    IF n = 0 THEN <<>>
    ELSE <<(r * 10) \div den>> \o digitsOf((r * 10) % den, den, n - 1)

RECURSIVE restAfter(_, _, _)
restAfter(r, den, n) ==
    IF n = 0 THEN r ELSE restAfter((r * 10) % den, den, n - 1)

RECURSIVE roundUp(_)
roundUp(d) ==
    IF Len(d) = 1 THEN <<d[1] + 1>>
    ELSE IF d[Len(d)] = 9
         THEN roundUp(SubSeq(d, 1, Len(d) - 1)) \o <<0>>
         ELSE [d EXCEPT ![Len(d)] = @ + 1]

toFixed(num, den) ==
    LET d == <<num \div den>> \o digitsOf(num % den, den, DecimalPlaces)
    IN  IF 2 * restAfter(num % den, den, DecimalPlaces) >= den THEN roundUp(d) ELSE d

\* percent = framePercent * (index + 1), framePercent = 1 / (duration / INTERVAL),
\* as numerator and denominator
percentNum(index) == (index + 1) * MsPerSecond
percentDen == ctor.duration * FPS

\* the arguments of the frame at position index that count from the queue's
\* start instead of from 1
percentArgs_FromZero(s) ==
    <<toFixed(s.frameIndex * MsPerSecond, percentDen),
      toFixed(s.frameIndex * MsPerSecond, percentDen)>>

\* the arguments play() hands to the frame at frameIndex:
\* percent.toFixed(10) and timingFunction(percent).toFixed(10), the timing
\* function being the caller's t => t
percentArgs(s) ==
    <<toFixed(percentNum(s.frameIndex), percentDen),
      toFixed(percentNum(s.frameIndex), percentDen)>>

\* function request() inside play(): request the current frame and attach
\* the continuation.  frameQueue[frameIndex] undefined: TypeError, nothing
\* is requested.
request(s) ==
    IF s.frameIndex < s.qlen
    THEN LET s1 == Frame_request(s, s.frameIndex, percentArgs(s))
         IN  then(s1, s1.frameDefer[s.frameIndex])
    ELSE s

\* play() without its "already playing" guard
play_NoGuard(s) ==
    LET s1 == [s EXCEPT !.isPlaying = TRUE]
        s2 == IF s1.defer = 0
              THEN [PromiseDefer(s1, -1) EXCEPT !.defer = Len(s1.promises) + 1]
              ELSE s1
    IN  request(s2)

\* play() that makes a new completion handle for every cycle
play_FreshHandle(s) ==
    IF s.isPlaying
    THEN s
    ELSE LET s1 == [s EXCEPT !.isPlaying = TRUE]
         IN  request([PromiseDefer(s1, -1) EXCEPT !.defer = Len(s1.promises) + 1])

\* animation.play()
play_(s) ==
    IF s.isPlaying
    THEN s
    ELSE LET s1 == [s EXCEPT !.isPlaying = TRUE]
             s2 == IF s1.defer = 0
                   THEN [PromiseDefer(s1, -1) EXCEPT !.defer = Len(s1.promises) + 1]
                   ELSE s1
         IN  request(s2)

\* stop() that rewinds the queue
stop_Rewind(s) ==
    IF ~s.isPlaying
    THEN s
    ELSE LET s1 == [s EXCEPT !.isPlaying = FALSE]
             s2 == IF s1.frameIndex < s1.qlen
                   THEN Frame_cancel(s1, s1.frameIndex)
                   ELSE s1
         IN  [s2 EXCEPT !.frameIndex = 0]

\* stop() that drops the completion handle
stop_DropHandle(s) ==
    IF ~s.isPlaying
    THEN s
    ELSE LET s1 == [s EXCEPT !.isPlaying = FALSE, !.defer = 0]
         IN  IF s1.frameIndex < s1.qlen
             THEN Frame_cancel(s1, s1.frameIndex)
             ELSE s1

\* animation.stop()
stop_(s) ==
    IF ~s.isPlaying
    THEN s
    ELSE LET s1 == [s EXCEPT !.isPlaying = FALSE]
         IN  IF s1.frameIndex < s1.qlen
             THEN Frame_cancel(s1, s1.frameIndex)
             ELSE s1

\* the continuation without "defer = null" after the finish
onFrameResolved_KeepHandle(s) ==
    IF ~s.isPlaying
    THEN s
    ELSE IF s.frameIndex = s.qlen - 1
         THEN LET s1 == [s EXCEPT !.isPlaying = FALSE]
              IN  IF s1.defer # 0 THEN Settle(s1, s1.defer, "resolved", FINISH) ELSE s1
         ELSE request([s EXCEPT !.frameIndex = @ + 1])

\* the continuation that rewinds frameIndex when the cycle finishes
onFrameResolved_Rewind(s) ==
    IF ~s.isPlaying
    THEN s
    ELSE IF s.frameIndex = s.qlen - 1
         THEN LET s1 == [s EXCEPT !.isPlaying = FALSE]
                  s2 == IF s1.defer # 0 THEN Settle(s1, s1.defer, "resolved", FINISH)
                                        ELSE s1
              IN  [s2 EXCEPT !.defer = 0, !.frameIndex = 0]
         ELSE request([s EXCEPT !.frameIndex = @ + 1])

\* the continuation that advances frameIndex without requesting the frame
onFrameResolved_NoRequest(s) ==
    IF ~s.isPlaying
    THEN s
    ELSE IF s.frameIndex = s.qlen - 1
         THEN LET s1 == [s EXCEPT !.isPlaying = FALSE]
                  s2 == IF s1.defer # 0 THEN Settle(s1, s1.defer, "resolved", FINISH)
                                        ELSE s1
              IN  [s2 EXCEPT !.defer = 0]
         ELSE [s EXCEPT !.frameIndex = @ + 1]

\* the continuation play() attaches to the current frame's promise
onFrameResolved(s) ==
    IF ~s.isPlaying
    THEN s
    ELSE IF s.frameIndex = s.qlen - 1
         THEN LET s1 == [s EXCEPT !.isPlaying = FALSE]
                  s2 == IF s1.defer # 0 THEN Settle(s1, s1.defer, "resolved", FINISH)
                                        ELSE s1
              IN  [s2 EXCEPT !.defer = 0]
         ELSE request([s EXCEPT !.frameIndex = @ + 1])

\* a rejection handler that passes the CANCEL on to the completion handle
onFrameRejected_Surface(s) ==
    IF s.defer # 0 THEN Settle(s, s.defer, "rejected", CANCEL) ELSE s

\* the rejection handler play() attaches: () => { // CANCEL }
onFrameRejected(s) == s

\* ------------------------------------------------------------- constructor
\* the keys of a frames mapping in the order Object.keys gives them
\* (integer keys ascending)
RECURSIVE Ascending(_)
Ascending(S) ==
    IF S = {} THEN <<>>
    ELSE LET m == CHOOSE x \in S : \A y \in S : x <= y
         IN  <<m>> \o Ascending(S \ {m})

\* getFrameQueue: a single callback is the mapping {'0': frames};
\* frameKeys = Object.keys(frames).map(parseInt)
frameKeysOf(frames) ==
    IF frames.single THEN <<0>> ELSE Ascending(frames.keys)

\* getFrameQueue, loop condition: i < frameCount, frameCount = duration / INTERVAL
InLoop_OneMore(c) == c.i * MsPerSecond <= c.duration * FPS

InLoop(c) == c.i * MsPerSecond < c.duration * FPS

\* the key test taken at the percent of the next tick
KeyReached_Ahead(c) ==
    /\ c.frameKeys # <<>>
    /\ Head(c.frameKeys) * c.duration * FPS <= (c.i + 1) * MsPerSecond * 100

\* the key test with a strict comparison
KeyReached_Strict(c) ==
    /\ c.frameKeys # <<>>
    /\ Head(c.frameKeys) * c.duration * FPS < c.i * MsPerSecond * 100

\* getFrameQueue: key !== null && key <= percent * 100, with
\* percent = framePercent * i = i / frameCount (frameKeys[0] of an empty
\* array is undefined, and undefined <= x is false)
KeyReached(c) ==
    /\ c.frameKeys # <<>>
    /\ Head(c.frameKeys) * c.duration * FPS <= c.i * MsPerSecond * 100

\* getFrameQueue: one iteration of the loop.  A queue entry records the key
\* whose callback the Frame wraps and whether clone() made it.
loopBody(c) ==
    IF KeyReached(c)
    THEN [c EXCEPT !.frameQueue = Append(@, [key |-> Head(c.frameKeys), clone |-> FALSE]),
                   !.frameKeys = Tail(@),
                   !.i = @ + 1]
    ELSE IF c.frameQueue # <<>>
         THEN [c EXCEPT !.frameQueue =
                            Append(@, [key |-> c.frameQueue[Len(c.frameQueue)].key,
                                       clone |-> TRUE]),
                        !.i = @ + 1]
         ELSE [c EXCEPT !.i = @ + 1]

RECURSIVE runLoop(_)
runLoop(c) == IF InLoop(c) THEN runLoop(loopBody(c)) ELSE c

\* the constructor entered with (duration, frames): getFrameQueue about to loop
Entered(duration, frames) ==
    [phase |-> "queue", duration |-> duration, frames |-> frames,
     frameKeys |-> frameKeysOf(frames), i |-> 0, frameQueue |-> <<>>,
     timingFunction |-> [kind |-> "none", known |-> FALSE, len |-> 0],
     lib |-> TRUE, bezier |-> "undefined"]

getFrameQueue(duration, frames) == runLoop(Entered(duration, frames)).frameQueue

\* getBezier(timingFunction).  lib: the imported Bezier is truthy (FALSE: it
\* is undefined, and Bezier[...] / Bezier.apply raise a TypeError).
getBezier(tf, lib) ==
    IF tf.kind \in {"string", "array"}
    THEN IF lib
         THEN "undefined"
         ELSE IF tf.kind = "string"
              THEN "TypeError"
              ELSE IF tf.len = 4 THEN "TypeError" ELSE "undefined"
    ELSE IF tf.kind = "function" THEN "function" ELSE "undefined"

\* the values a caller may pass as timing function
TimingFunctions ==
    {[kind |-> "string", known |-> b, len |-> 0] : b \in BOOLEAN}
    \cup {[kind |-> "array", known |-> FALSE, len |-> n] : n \in 0 .. MaxLen}
    \cup {[kind |-> k, known |-> FALSE, len |-> 0] : k \in {"function", "other"}}

LinearEasing == [kind |-> "function", known |-> FALSE, len |-> 0]

\* the rest of the constructor: getBezier, then throw or finish
constructed(c, tf, lib) ==
    LET b == getBezier(tf, lib)
    IN  [c EXCEPT !.timingFunction = tf, !.lib = lib, !.bezier = b,
                  !.phase = IF b \in {"undefined", "TypeError"} THEN "threw" ELSE "done"]

\* new animation(duration, timingFunction, frames), run to its end
animation(duration, tf, frames) ==
    constructed([runLoop(Entered(duration, frames)) EXCEPT !.phase = "bezier"], tf, TRUE)

\* inputs of the constructor
PercentKeys == {0, 20, 50, 75, 100}
Durations == (1 .. MaxDuration) \cup {1000}
FramesInputs ==
    {[single |-> TRUE, keys |-> {}]}
    \cup {[single |-> FALSE, keys |-> K] : K \in SUBSET PercentKeys}
SingleCallback == [single |-> TRUE, keys |-> {}]

\* durations of the Animations that are played: a fraction of a tick, one
\* and a half ticks, three ticks exactly, and longer ones as MaxQ allows
PlayDurations ==
    {d \in {10, 25, 50, 60, 70} : Len(getFrameQueue(d, SingleCallback)) \in 1 .. MaxQ}

\* ----------------------------------------------------------------- context
\* where the user code that calls a public method is running
Context ==
    IF running # NoRun THEN "callback"
    ELSE IF mq # <<>> THEN "microtask"
    ELSE "task"

\* the step taken, where its caller ran, and isPlaying before it
Op(name) == [op |-> name, ctx |-> Context, was |-> isPlaying]

Init ==
    /\ isPlaying = FALSE
    /\ frameIndex = 0
    /\ defer = 0
    /\ \E d \in PlayDurations :
          /\ ctor = animation(d, LinearEasing, SingleCallback)
          /\ qlen = Len(ctor.frameQueue)
    /\ promises = <<>>
    /\ mq = <<>>
    /\ tick = [f \in Frames |-> 0]
    /\ isCancel = [f \in Frames |-> FALSE]
    /\ frameDefer = [f \in Frames |-> 0]
    /\ raf = <<>>
    /\ nextTick = 1
    /\ running = NoRun
    /\ ops = 0
    /\ lastOp = [op |-> "init", ctx |-> "task", was |-> FALSE]
    /\ calls = <<>>
    /\ asked = <<>>
    /\ cancelled = {}
    /\ stopped = {}
    /\ idleBy = "init"
    /\ finishes = <<>>
    /\ threw = FALSE
    /\ stopCtx = {}

\* tokens a step removed from the scheduler without firing them
Dropped(s, t) == {s.raf[i].id : i \in 1 .. Len(s.raf)} \ {t.raf[i].id : i \in 1 .. Len(t.raf)}

\* ------------------------------------------------------------------ actions
\* stop() is being called before the last frame of the cycle has resolved
StoppedEarly ==
    /\ isPlaying
    /\ \/ frameIndex < qlen - 1
       \/ frameDefer[frameIndex] = 0
       \/ promises[frameDefer[frameIndex]].st # "resolved"

play ==
    /\ UNCHANGED <<ctor, threw, stopCtx>>
    /\ ops < MaxOps
    /\ ops' = ops + 1
    /\ Install(play_(Cur))
    /\ lastOp' = Op("play")
    /\ UNCHANGED <<running, calls, asked, cancelled, stopped, idleBy, finishes>>

stop ==
    /\ UNCHANGED <<ctor, threw>>
    /\ stopCtx' = IF isPlaying THEN stopCtx \cup {Context} ELSE stopCtx
    /\ ops < MaxOps
    /\ ops' = ops + 1
    /\ Install(stop_(Cur))
    /\ lastOp' = Op("stop")
    /\ cancelled' = cancelled \cup Dropped(Cur, stop_(Cur))
    /\ stopped' = IF StoppedEarly THEN stopped \cup {defer} ELSE stopped
    /\ idleBy' = IF isPlaying THEN "stop" ELSE idleBy
    /\ UNCHANGED <<running, calls, asked, finishes>>

\* user code: theFrame.request(a) on the Frame made by animation.frame(fn)
frameRequest(a) ==
    /\ UNCHANGED <<ctor, threw, stopCtx>>
    /\ ops < MaxFrameOps
    /\ ops' = ops + 1
    /\ Install(Frame_request(Cur, UserFrame, a))
    /\ lastOp' = Op("request")
    /\ asked' = Append(asked, [tick |-> nextTick, frame |-> UserFrame, args |-> a,
                               p |-> Len(promises) + 1])
    /\ UNCHANGED <<running, calls, cancelled, stopped, idleBy, finishes>>

\* user code: theFrame.cancel() on a Frame the user holds
frameCancel(f) ==
    /\ UNCHANGED <<ctor, threw, stopCtx>>
    /\ ops < MaxFrameOps
    /\ ops' = ops + 1
    /\ Install(Frame_cancel(Cur, f))
    /\ lastOp' = Op("cancel")
    /\ cancelled' = cancelled \cup Dropped(Cur, Frame_cancel(Cur, f))
    /\ UNCHANGED <<running, calls, asked, stopped, idleBy, finishes>>

\* animation.requestFrame(fn, ...a): var frame = new Frame(fun); frame.request()
requestFrame_(s, a) == Frame_request(s, OneShot, <<>>)

requestFrame(a) ==
    /\ UNCHANGED <<ctor, threw, stopCtx>>
    /\ ops < MaxFrameOps
    /\ tick[OneShot] = 0
    /\ ops' = ops + 1
    /\ Install(requestFrame_(Cur, a))
    /\ lastOp' = Op("requestFrame")
    /\ asked' = Append(asked, [tick |-> nextTick, frame |-> OneShot, args |-> a,
                               p |-> Len(promises) + 1])
    /\ UNCHANGED <<running, calls, cancelled, stopped, idleBy, finishes>>

\* the scheduler fires the oldest registered callback:
\*   () => { if (isCancel) return; defer && defer.resolve(fun.apply(window, args)) }
\* defer.resolve is looked up before the arguments are evaluated, so the
\* callback resolves the promise the frame holds when the tick fires.
tickFires ==
    /\ UNCHANGED <<ctor, threw, stopCtx>>
    /\ running = NoRun
    /\ mq = <<>>
    /\ raf # <<>>
    /\ LET e == Head(raf) IN
        /\ raf' = Tail(raf)
        /\ IF isCancel[e.frame] \/ frameDefer[e.frame] = 0
           THEN UNCHANGED <<running, calls>>
           ELSE /\ running' = [frame |-> e.frame, args |-> e.args,
                               defer |-> frameDefer[e.frame], tick |-> e.id]
                /\ calls' = Append(calls, [tick |-> e.id, frame |-> e.frame, args |-> e.args])
    /\ lastOp' = Op("tick")
    /\ UNCHANGED <<isPlaying, frameIndex, defer, qlen, promises, mq, tick, isCancel,
                   frameDefer, nextTick, ops, asked, cancelled, stopped, idleBy, finishes>>

\* the frame callback returns: its value resolves the promise
funReturns ==
    /\ UNCHANGED <<ctor, threw, stopCtx>>
    /\ running # NoRun
    /\ Install(Settle(Cur, running.defer, "resolved", fun(running.frame, running.args)))
    /\ running' = NoRun
    /\ lastOp' = Op("return")
    /\ UNCHANGED <<ops, calls, asked, cancelled, stopped, idleBy, finishes>>

\* the frame callback throws: the exception leaves the scheduler callback
funThrows ==
    /\ UNCHANGED <<ctor, stopCtx>>
    /\ threw' = TRUE
    /\ running # NoRun
    /\ running' = NoRun
    /\ lastOp' = Op("throw")
    /\ UNCHANGED <<prog, ops, calls, asked, cancelled, stopped, idleBy, finishes>>

\* the host runs the oldest promise reaction job
reaction ==
    /\ UNCHANGED <<ctor, threw, stopCtx>>
    /\ running = NoRun
    /\ mq # <<>>
    /\ LET m == Head(mq)
           s == [Cur EXCEPT !.mq = Tail(mq)]
           t == IF m.kind = "resolved" THEN onFrameResolved(s) ELSE onFrameRejected(s)
       IN  /\ Install(t)
           /\ lastOp' = Op(IF m.kind = "resolved" THEN "then" ELSE "catch")
           /\ finishes' = IF t.defer = 0 /\ defer # 0 THEN Append(finishes, defer) ELSE finishes
           /\ idleBy' = IF isPlaying /\ ~t.isPlaying THEN "finish" ELSE idleBy
    /\ UNCHANGED <<running, ops, calls, asked, cancelled, stopped>>

\* one Animation, driven by its user and by the host
Next ==
    \/ play
    \/ stop
    \/ tickFires
    \/ funReturns
    \/ funThrows
    \/ reaction

Spec == Init /\ [][Next]_vars

\* the user calls play() or stop() a few times
livePlay == ops < MaxLiveOps /\ play

liveStop == ops < MaxLiveOps /\ stop

LiveNext ==
    \/ livePlay
    \/ liveStop
    \/ tickFires
    \/ funReturns
    \/ funThrows
    \/ reaction

\* the host at work: a registered scheduler callback fires once the thread is
\* free, a running callback comes to its end, a queued promise reaction runs
LiveSpec ==
    /\ Init
    /\ [][LiveNext]_vars
    /\ WF_vars(tickFires)
    /\ WF_vars(funReturns \/ funThrows)
    /\ WF_vars(reaction)

\* Frames used on their own: animation.frame(fn) and animation.requestFrame(fn)
FrameNext ==
    \/ \E a \in UserArgs : frameRequest(a)
    \/ \E f \in {UserFrame, OneShot} : frameCancel(f)
    \/ \E a \in UserArgs : requestFrame(a)
    \/ tickFires
    \/ funReturns
    \/ funThrows

FrameSpec == Init /\ [][FrameNext]_vars

\* everything but the constructor's own state and frameQueue.length
afterCtor == <<isPlaying, frameIndex, defer, promises, mq, tick, isCancel, frameDefer,
               raf, nextTick, running, ops, lastOp, calls, asked, cancelled, stopped,
               idleBy, finishes, threw, stopCtx>>

\* new animation(duration, timingFunction, frames) has just been called
CtorInit ==
    /\ \E d \in Durations, fr \in FramesInputs : ctor = Entered(d, fr)
    /\ qlen = 0
    /\ isPlaying = FALSE
    /\ frameIndex = 0
    /\ defer = 0
    /\ promises = <<>>
    /\ mq = <<>>
    /\ tick = [f \in Frames |-> 0]
    /\ isCancel = [f \in Frames |-> FALSE]
    /\ frameDefer = [f \in Frames |-> 0]
    /\ raf = <<>>
    /\ nextTick = 1
    /\ running = NoRun
    /\ ops = 0
    /\ lastOp = [op |-> "init", ctx |-> "task", was |-> FALSE]
    /\ calls = <<>>
    /\ asked = <<>>
    /\ cancelled = {}
    /\ stopped = {}
    /\ idleBy = "init"
    /\ finishes = <<>>
    /\ threw = FALSE
    /\ stopCtx = {}

\* getFrameQueue: one pass through the loop body
loopStep ==
    /\ ctor.phase = "queue"
    /\ InLoop(ctor)
    /\ ctor' = loopBody(ctor)
    /\ UNCHANGED <<qlen, afterCtor>>

\* getFrameQueue returns frameQueue
loopExit ==
    /\ ctor.phase = "queue"
    /\ ~InLoop(ctor)
    /\ ctor' = [ctor EXCEPT !.phase = "bezier"]
    /\ qlen' = Len(ctor.frameQueue)
    /\ UNCHANGED afterCtor

\* getBezier(timingFunction); if (!bezier) throw; the instance is complete
construct(tf, lib) ==
    /\ ctor.phase = "bezier"
    /\ ctor' = constructed(ctor, tf, lib)
    /\ UNCHANGED <<qlen, afterCtor>>

CtorNext ==
    \/ loopStep
    \/ loopExit
    \/ \E tf \in TimingFunctions, lib \in BOOLEAN : construct(tf, lib)

CtorSpec == CtorInit /\ [][CtorNext]_vars

\* ------------------------------------------------------------------ claims
\* what a frame owns: its variables, its registered callbacks, its promises
FrameView(s, f) ==
    [tick |-> s.tick[f], isCancel |-> s.isCancel[f], defer |-> s.frameDefer[f],
     raf |-> SelectSeq(s.raf, LAMBDA e : e.frame = f),
     promises |-> [p \in {q \in 1 .. Len(s.promises) : s.promises[q].of = f}
                     |-> s.promises[p]]]

\* the completion handles made so far and their states
Handles == {p \in 1 .. Len(promises) : promises[p].of = -1}

\* C1: play() on an Animation that is already playing changes nothing:
\* isPlaying, frameIndex, the completion handle, every Frame, the registered
\* scheduler callbacks and the promises all stay as they were.
C1_PlayWhilePlaying ==
    [][(play /\ isPlaying) => UNCHANGED prog]_vars

\* C1 witness: play() has just been called while a frame request was pending
C1_Witness ==
    lastOp.op = "play" /\ lastOp.was /\ isPlaying /\ raf # <<>>

\* C2: stop() while idle changes nothing; stop() while playing cancels the
\* frame at frameIndex (flag set, token unregistered, promise not left
\* pending) and touches no other frame, frameIndex stays; while idle no step
\* changes frameIndex, and play() from idle requests the frame at frameIndex.
C2_StopThenResume ==
    [][ /\ (stop /\ ~isPlaying) => UNCHANGED prog
        /\ (stop /\ isPlaying) =>
              /\ frameIndex' = frameIndex
              /\ ~isPlaying'
              /\ isCancel'[frameIndex]
              /\ ~Registered(Cur', tick[frameIndex])
              /\ promises'[frameDefer[frameIndex]].st # "pending"
              /\ \A f \in Frames \ {frameIndex} : FrameView(Cur', f) = FrameView(Cur, f)
        /\ ~isPlaying => frameIndex' = frameIndex
        /\ (play /\ ~isPlaying) =>
              /\ tick'[frameIndex] = nextTick
              /\ Registered(Cur', nextTick)
              /\ \A f \in Frames \ {frameIndex} : FrameView(Cur', f) = FrameView(Cur, f)
      ]_vars

\* C2 witness: a stopped animation has been resumed at an index past 0
C2_Witness ==
    /\ lastOp.op = "play" /\ ~lastOp.was
    /\ stopped # {}
    /\ frameIndex > 0
    /\ Registered(Cur, tick[frameIndex])

\* the continuation of a resolved frame is about to run while the animation
\* is playing its last index: the cycle ends in this step
Finishing ==
    /\ running = NoRun
    /\ mq # <<>>
    /\ Head(mq).kind = "resolved"
    /\ isPlaying
    /\ frameIndex = qlen - 1

\* C3: a cycle whose last frame resolves ends with resolve('FINISH') called
\* on its handle exactly once: the handle goes from pending to resolved with
\* FINISH, isPlaying becomes false and the handle is cleared in that step;
\* a handle changes state in no other step, no handle sees resolve('FINISH')
\* twice, and no handle holds another value.
C3_FinishOnce ==
    /\ [](/\ \A i, j \in 1 .. Len(finishes) : finishes[i] = finishes[j] => i = j
          /\ \A h \in Handles :
                \/ promises[h].st = "pending" /\ promises[h].val = NoVal
                \/ promises[h].st = "resolved" /\ promises[h].val = FINISH)
    /\ [][ /\ (reaction /\ Finishing) =>
                /\ defer # 0
                /\ promises[defer].st = "pending"
                /\ promises'[defer].st = "resolved"
                /\ promises'[defer].val = FINISH
                /\ finishes' = Append(finishes, defer)
                /\ ~isPlaying'
                /\ defer' = 0
           /\ (\E h \in Handles : promises'[h] # promises[h]) => (reaction /\ Finishing)
         ]_vars

\* C3 witness: two cycles have finished, the second just now
C3_Witness ==
    /\ Len(finishes) = 2
    /\ lastOp.op = "then"
    /\ lastOp.was
    /\ ~isPlaying
    /\ defer = 0
    /\ promises[finishes[2]].val = FINISH

\* C4 as claimed: a handle whose cycle was stopped before its last frame
\* resolved is never resolved with FINISH.
C4_StoppedNeverFinishes ==
    \A h \in stopped : promises[h].st # "resolved"

\* C4 amended: stop() leaves the handle as it is; a handle whose cycle was
\* stopped early stays pending for as long as it is the animation's handle,
\* the resuming play() keeps it instead of making a new one, and it is
\* replaced only by being resolved with FINISH at the end of the queue.
C4_StoppedHandleKept ==
    /\ [](\A h \in stopped :
            IF defer = h
            THEN promises[h].st = "pending"
            ELSE promises[h].st = "resolved" /\ promises[h].val = FINISH)
    /\ [][ /\ stop => (defer' = defer /\ \A h \in Handles : promises'[h] = promises[h])
           /\ (play /\ ~isPlaying /\ defer # 0) =>
                 (defer' = defer /\ \A h \in 1 .. Len(promises') : promises'[h].of = -1 => h \in Handles)
         ]_vars

\* C4 witness: a handle that saw an early stop() has been resolved with FINISH
C4_Witness ==
    \E h \in stopped : promises[h].st = "resolved" /\ promises[h].val = FINISH /\ defer = 0

\* C7 as claimed: an idle animation holds no completion handle.
C7_IdleHasNoHandle ==
    ~isPlaying => defer = 0

\* C7 amended: a playing animation holds a pending handle; an idle one holds
\* none when it is fresh or has finished, and holds the pending handle of the
\* interrupted cycle when it became idle by stop().
C7_IdleHandle ==
    /\ isPlaying => (defer # 0 /\ promises[defer].st = "pending")
    /\ ~isPlaying =>
          /\ idleBy \in {"init", "finish"} => defer = 0
          /\ idleBy = "stop" => (defer # 0 /\ promises[defer].st = "pending")

\* C7 witness: idle after a stop(), with the handle still held
C7_Witness ==
    ~isPlaying /\ idleBy = "stop" /\ lastOp.op = "stop" /\ defer # 0

\* queue frames that have a callback registered with the scheduler
PendingFrames == {raf[i].frame : i \in 1 .. Len(raf)} \cap QueueFrames

\* some request of frame f has resolved
HasResolved(f) ==
    \E p \in 1 .. Len(promises) : promises[p].of = f /\ promises[p].st = "resolved"

\* C5: the frames of one Animation never overlap: at most one of them has a
\* scheduler callback registered, and the frame at index N+1 is requested
\* only once a request of the frame at index N has resolved.
C5_Sequential ==
    /\ Cardinality(PendingFrames) <= 1
    /\ \A f \in QueueFrames : (f > 0 /\ tick[f] # 0) => HasResolved(f - 1)

\* C6: frameIndex stays or grows by one in every step; it grows only in the
\* continuation of a resolved request of the frame at the current index,
\* only while isPlaying is true, and never in play() or stop().
C6_IndexAdvance ==
    [][ /\ frameIndex' \in {frameIndex, frameIndex + 1}
        /\ frameIndex' # frameIndex =>
              /\ reaction
              /\ isPlaying
              /\ Head(mq).kind = "resolved"
              /\ promises[Head(mq).p].of = frameIndex
      ]_vars

\* C8: Frame.cancel() with a request pending rejects that request's promise
\* with CANCEL and the callback never runs for a cancelled token; with no
\* request pending (never requested, or the tick has fired) it changes
\* nothing of the program; a second cancel() changes nothing more.
C8_Cancel ==
    /\ [](/\ \A i \in 1 .. Len(calls) : calls[i].tick \notin cancelled
          /\ \A f \in {UserFrame, OneShot} :
                Frame_cancel(Frame_cancel(Cur, f), f) = Frame_cancel(Cur, f))
    /\ [][\A f \in {UserFrame, OneShot} :
            frameCancel(f) =>
               IF tick[f] # 0 /\ Registered(Cur, tick[f])
               THEN /\ promises'[frameDefer[f]].st = "rejected"
                    /\ promises'[frameDefer[f]].val = CANCEL
                    /\ tick[f] \in cancelled'
               ELSE UNCHANGED prog
         ]_vars

\* C9: a Frame never has more than one callback registered with the
\* scheduler, whatever sequence of request(), cancel() and ticks it sees.
C9_OneToken ==
    \A f \in Frames : Cardinality({i \in 1 .. Len(raf) : raf[i].frame = f}) <= 1

\* C10: a frame scheduled by request(args) or requestFrame(fn, args) has its
\* callback invoked at most once for that scheduling, with the arguments
\* given, and its promise resolves with the callback's value for them.
C10_ArgsOnce ==
    \A j \in 1 .. Len(asked) :
        LET q == asked[j]
            mine == {i \in 1 .. Len(calls) : calls[i].tick = q.tick}
        IN  /\ Cardinality(mine) <= 1
            /\ \A i \in mine : calls[i].args = q.args
            /\ promises[q.p].st = "resolved" => promises[q.p].val = fun(q.frame, q.args)

\* C11: when a frame callback throws, the promise of that request does not
\* stay pending: it is rejected in the step in which the callback throws.
C11_ThrowRejects ==
    [][funThrows => promises'[running.defer].st = "rejected"]_vars

\* the timing functions the constructor is meant to accept
Resolvable(tf) ==
    \/ tf.kind = "string" /\ tf.known
    \/ tf.kind = "array" /\ tf.len = 4
    \/ tf.kind = "function"

\* C12: the constructor throws exactly when the timing function is
\* unresolvable (a known curve name, an array of 4 numbers and a callable are
\* accepted, everything else is rejected), with no scheduler tick registered.
C12_RejectsUnresolvable ==
    ctor.phase \in {"done", "threw"} =>
        /\ (ctor.phase = "done") <=> Resolvable(ctor.timingFunction)
        /\ raf = <<>>

\* the frames mapping has keys and its first key is 0 (a single callback is
\* the mapping {0: callback})
StartsAtZero(c) == c.frames.single \/ 0 \in c.frames.keys

\* C13 as claimed: the built queue is no longer than duration / frameInterval
\* and exactly that long when the keys start at 0.
C13_LengthIsFrameCount ==
    ctor.phase # "queue" =>
        /\ Len(ctor.frameQueue) * MsPerSecond <= ctor.duration * FPS
        /\ StartsAtZero(ctor) => Len(ctor.frameQueue) * MsPerSecond = ctor.duration * FPS

\* C13 amended: the built queue is no longer than duration / frameInterval
\* rounded up to a whole number of ticks, and exactly that long when the keys
\* start at 0.
C13_LengthIsTickCount ==
    ctor.phase # "queue" =>
        /\ (Len(ctor.frameQueue) - 1) * MsPerSecond < ctor.duration * FPS
        /\ StartsAtZero(ctor) => Len(ctor.frameQueue) * MsPerSecond >= ctor.duration * FPS

\* C13 witness: a duration that is no whole number of ticks, keys from 0
C13_Witness ==
    /\ ctor.phase = "done"
    /\ ctor.duration = 25
    /\ StartsAtZero(ctor)
    /\ Len(ctor.frameQueue) = 2

\* C14: for frames = {0: f0, k: f1} and N = duration / frameInterval, queue
\* position i holds f0 when 100 * i / N < k and f1 otherwise; position 0 is
\* f0 itself, the first f1 is f1 itself, every other position is a clone.
C14_TwoKeys ==
    (ctor.phase # "queue" /\ ~ctor.frames.single /\ Cardinality(ctor.frames.keys) = 2
        /\ 0 \in ctor.frames.keys) =>
        LET k == CHOOSE x \in ctor.frames.keys : x # 0
            q == ctor.frameQueue
            before(i) == 100 * i * MsPerSecond < k * ctor.duration * FPS
        IN  \A i \in 0 .. (Len(q) - 1) :
                /\ q[i + 1].key = IF before(i) THEN 0 ELSE k
                /\ q[i + 1].clone <=> ~(i = 0 \/ (~before(i) /\ before(i - 1)))

\* C14 witness: k = 50 and 60 ticks: positions 0..29 are f0, 30..59 are f1
C14_Witness ==
    /\ ctor.phase = "done"
    /\ ctor.duration = 1000
    /\ ~ctor.frames.single /\ ctor.frames.keys = {0, 50}
    /\ Len(ctor.frameQueue) = 60
    /\ \A i \in 1 .. 30 : ctor.frameQueue[i].key = 0
    /\ \A i \in 31 .. 60 : ctor.frameQueue[i].key = 50

\* the keys of the mapping that the loop has taken so far
Consumed(c) == {x \in (IF c.frames.single THEN {0} ELSE c.frames.keys) :
                    \A n \in 1 .. Len(c.frameKeys) : c.frameKeys[n] # x}

\* C20: each tick of the queue builder takes at most one key, and only a key
\* k <= 100 * i / frameCount for a tick i < frameCount; so the callback keyed
\* at 100 is never in the queue (the queue is all play() ever requests), and
\* a mapping whose only key is 100 gives an empty queue.
C20_Key100Unused ==
    /\ [](/\ \A n \in 1 .. Len(ctor.frameQueue) : ctor.frameQueue[n].key # 100
          /\ 100 \notin Consumed(ctor)
          /\ (ctor.phase # "queue" /\ ~ctor.frames.single /\ ctor.frames.keys = {100})
                => (ctor.frameQueue = <<>> /\ qlen = 0))
    /\ [][loopStep =>
            /\ Len(ctor'.frameKeys) >= Len(ctor.frameKeys) - 1
            /\ \A k \in Consumed(ctor') \ Consumed(ctor) :
                  /\ k * ctor.duration * FPS <= 100 * ctor.i * MsPerSecond
                  /\ ctor.i * MsPerSecond < ctor.duration * FPS
         ]_vars

\* C20 witness: a mapping with the keys 0 and 100 has been built into a
\* queue of six frames, the key 100 left over
C20_Witness ==
    /\ ctor.phase = "done"
    /\ ~ctor.frames.single /\ ctor.frames.keys = {0, 100}
    /\ ctor.duration = 100
    /\ Len(ctor.frameQueue) = 6
    /\ ctor.frameKeys = <<100>>

\* C15: once a cycle has finished, frameIndex is the last index of the queue
\* and stays there; every later call of a queue callback is a call of the
\* last frame; and every later finish resolves a new handle with FINISH.
C15_FinishedStays ==
    [][ finishes # <<>> =>
          /\ frameIndex = qlen - 1
          /\ frameIndex' = qlen - 1
          /\ calls' # calls => calls'[Len(calls')].frame = qlen - 1
          /\ finishes' # finishes =>
                /\ finishes'[Len(finishes')] \notin {finishes[i] : i \in 1 .. Len(finishes)}
                /\ promises'[finishes'[Len(finishes')]].st = "resolved"
                /\ promises'[finishes'[Len(finishes')]].val = FINISH
      ]_vars

\* a queue of several frames has finished, play() was called again and that
\* cycle has finished too, the last frame having run for it
C15_Witness ==
    /\ qlen > 1
    /\ Len(finishes) = 2
    /\ finishes[1] # finishes[2]
    /\ frameIndex = qlen - 1
    /\ Len(calls) > qlen
    /\ calls[Len(calls)].frame = qlen - 1
    /\ idleBy = "finish"
    /\ ~isPlaying

\* the host is about to run the rejection handler of a cancelled frame
Cancelling ==
    /\ running = NoRun
    /\ mq # <<>>
    /\ Head(mq).kind = "rejected"

\* C16: no completion handle is ever rejected; stop() and the rejection
\* handler of a cancelled frame leave every handle as it is, and the
\* rejection handler changes nothing else either: it requests no frame and
\* touches neither isPlaying, frameIndex nor the handle.
C16_NeverRejected ==
    /\ [](\A h \in Handles : promises[h].st # "rejected" /\ promises[h].val # CANCEL)
    /\ [][ /\ stop => \A h \in Handles : promises'[h] = promises[h]
           /\ (reaction /\ Cancelling) =>
                /\ \A h \in Handles : promises'[h] = promises[h]
                /\ UNCHANGED <<isPlaying, frameIndex, defer, raf, tick, frameDefer>>
         ]_vars

\* stop() has cancelled the frame in flight, its rejection handler has run
\* and the cycle's handle is still pending
C16_Witness ==
    /\ lastOp.op = "catch"
    /\ ~isPlaying
    /\ defer # 0
    /\ defer \in stopped
    /\ promises[defer].st = "pending"
    /\ \E p \in 1 .. Len(promises) :
          promises[p].of \in QueueFrames /\ promises[p].st = "rejected"

\* between scheduler ticks, after the promise continuations have run
Quiescent ==
    /\ running = NoRun
    /\ mq = <<>>

\* C17: frameIndex is always a position of the queue; and in a quiescent
\* state of an Animation none of whose callbacks has thrown, a playing
\* Animation has exactly one scheduler callback registered, that of the
\* frame at frameIndex, and an idle one has none.
C17_Quiescent ==
    /\ frameIndex \in 0 .. qlen - 1
    /\ (Quiescent /\ ~threw) =>
          /\ isPlaying => (Len(raf) = 1 /\ raf[1].frame = frameIndex)
          /\ ~isPlaying => raf = <<>>

\* the first FINISH of the animation is being resolved
FirstFinish ==
    /\ finishes = <<>>
    /\ finishes' # <<>>

\* every stop() that stopped a cycle was called between ticks
StopsBetweenTicks == stopCtx \subseteq {"task"}

\* the percent strings of queue position index
Received(index) ==
    <<toFixed(percentNum(index), percentDen), toFixed(percentNum(index), percentDen)>>

\* the decimal string of position index is (index + 1) / frameCount itself,
\* nothing having been rounded away
Unrounded(index) ==
    restAfter(percentNum(index) % percentDen, percentDen, DecimalPlaces) = 0

\* C18 as claimed: when the first FINISH is resolved, stop() having been
\* called between ticks only, the callbacks of positions 0 .. length-1 have
\* been invoked once each, in that order, and position i was handed
\* (i+1)/frameCount.
C18_ExactlyOnce ==
    [][ (FirstFinish /\ StopsBetweenTicks) =>
          /\ Len(calls') = qlen
          /\ \A i \in 1 .. Len(calls') :
                /\ calls'[i].frame = i - 1
                /\ calls'[i].args = Received(i - 1)
                /\ Unrounded(i - 1)
      ]_vars

\* the requests of queue frames whose callback has returned, oldest first
Returned == SelectSeq(promises, LAMBDA q : q.of \in QueueFrames /\ q.st = "resolved")

\* C18 amended: every invocation of position i is handed the decimal
\* strings of (i+1)/frameCount rounded to ten places.  With stop() called
\* between ticks only, up to the first FINISH the callbacks that have
\* returned are those of positions 0, 1, 2, ... in order and once each, and
\* all length of them have returned when FINISH is resolved; an invocation
\* that threw is repeated after stop() and play().  When no callback has
\* thrown, the invocations themselves are those of positions 0, 1, 2, ...
\* once each, a frame cancelled by stop() being invoked only after the
\* resuming play().
C18_OnceInOrder ==
    /\ [](\A i \in 1 .. Len(calls) : calls[i].args = Received(calls[i].frame))
    /\ []((finishes = <<>> /\ StopsBetweenTicks) =>
            /\ Len(Returned) <= qlen
            /\ \A i \in 1 .. Len(Returned) : Returned[i].of = i - 1)
    /\ []((finishes = <<>> /\ StopsBetweenTicks /\ ~threw) =>
            /\ Len(calls) <= qlen
            /\ \A i \in 1 .. Len(calls) :
                  /\ calls[i].frame = i - 1
                  /\ calls[i].tick \notin cancelled)
    /\ [][ (FirstFinish /\ StopsBetweenTicks) =>
              /\ Len(Returned') = qlen
              /\ ~threw => Len(calls') = qlen
         ]_vars

\* a cycle of three frames was stopped between ticks, which cancelled the
\* frame in flight, was resumed and has resolved FINISH, the second frame
\* having been handed 0.6666666667
C18_Witness ==
    /\ qlen = 3
    /\ Len(finishes) = 1
    /\ ~threw
    /\ stopCtx = {"task"}
    /\ cancelled # {}
    /\ Len(calls) = 3
    /\ calls[2].args[1] = <<0, 6, 6, 6, 6, 6, 6, 6, 6, 6, 7>>
    /\ ~Unrounded(1)
    /\ lastOp.op = "then"
    /\ ~isPlaying

\* play() has just started a cycle
Started ==
    /\ lastOp.op = "play"
    /\ ~lastOp.was
    /\ isPlaying

\* the animation is idle at the end of its queue, every handle resolved
IdleFinished ==
    /\ ~isPlaying
    /\ frameIndex = qlen - 1
    /\ defer = 0
    /\ finishes # <<>>
    /\ \A h \in Handles : promises[h].st = "resolved" /\ promises[h].val = FINISH

\* C19: once play() has started a cycle, the animation becomes idle with
\* frameIndex at the last index and the cycle's handle resolved with FINISH,
\* unless stop() is called or a callback throws before that.
C19_EventuallyIdle ==
    Started ~> (IdleFinished \/ lastOp.op = "stop" \/ lastOp.op = "throw")

\* a cycle of three frames has run from play() to FINISH with no stop() and
\* no throw
C19_Witness ==
    /\ qlen = 3
    /\ IdleFinished
    /\ lastOp.op = "then"
    /\ lastOp.was
    /\ stopCtx = {}
    /\ ~threw
    /\ Len(calls) = 3

====
